---- MODULE Spec2Model ----
(***************************************************************************)
(* Model of gibr's branch-creation workflow (src/src/gibr/git.py).         *)
(*                                                                         *)
(* One behaviour is one call of create_and_push_branch.  The repository    *)
(* (GitPython Repo), the terminal (click.confirm / click.prompt) and the   *)
(* notification sink (gibr.notify) are the environment: what the           *)
(* repository reports and what the user answers are chosen                 *)
(* nondeterministically, every message, prompt and git call is appended    *)
(* to one history, `trace`, in program order.                              *)
(*                                                                         *)
(* Strings built by f-strings are modelled as sequences of tokens, so      *)
(* that "<name>-<suffix>" and "<name>:<name>" are real concatenations.     *)
(*                                                                         *)
(* The repository is what git.py reads from the handle: is_dirty(),        *)
(* head.is_valid(), head.is_detached, active_branch.name and heads are     *)
(* independent inputs, as in tests/test_git.py.  The only exceptions the   *)
(* environment raises are the two git.py names: InvalidGitRepositoryError  *)
(* (from Repo) and GitCommandError (from create_head, checkout, push and   *)
(* raise_if_error).                                                        *)
(*                                                                         *)
(* The second part models GibrGroup (src/src/gibr/cli/group.py): the       *)
(* rewriting of the command-line token list.  A token is its sequence of   *)
(* characters, so that startswith("--") and isdigit() are computed.  The   *)
(* two tracker predicates and the command registry are inputs.  ArgsSpec   *)
(* applies the methods to every token list up to MaxArgs tokens.           *)
(***************************************************************************)
EXTENDS Integers, Sequences, FiniteSets, TLC

\* ------------------------------------------------------------------ bounds
NumNames == 2
NumSuffixes == 1
MaxArgs == 4

NamePool == <<"main", "feature", "fix", "hotfix", "release">>
SuffixPool == <<"take2", "v2", "v3", "v4">>

BaseNames == {<<NamePool[i]>> : i \in 1..NumNames}
Suffixes == {<<SuffixPool[i]>> : i \in 1..NumSuffixes}

\* f"{branch_name}-{suffix}"  (git.py line 53)
new_name(name, suffix) == name \o <<"-">> \o suffix

\* f"{branch_name}:{branch_name}"  (git.py line 104)
refspec(name) == name \o <<":">> \o name

\* every branch name the repository may hold initially: the base names and
\* the names a suffix prompt can produce (so that a second collision exists)
AllNames == BaseNames \cup {new_name(n, s) : n \in BaseNames, s \in Suffixes}

NoName == <<>>

VARIABLES
    pc,               \* position inside create_and_push_branch
    outcome,          \* "running", "returned" or the exception that escaped
    branch_name,      \* the local variable branch_name (rebound at line 81)
    requested,        \* the branch_name argument as passed by the caller
    is_push,          \* argument
    dry_run,          \* argument
    current_branch,   \* local variable, set at line 72
    in_repo,          \* does Repo(".") find a repository?
    repo,             \* the handle: "none", "open" or "closed"
    closes,           \* number of repo.close() calls made
    is_dirty,         \* repo.is_dirty(untracked_files=False)
    head_is_valid,    \* repo.head.is_valid()
    head_is_detached, \* repo.head.is_detached
    active_branch,    \* repo.active_branch.name
    heads,            \* names in repo.heads
    heads0,           \* repo.heads at the start of the run
    active0,          \* repo.active_branch.name at the start of the run
    detached0,        \* repo.head.is_detached at the start of the run
    trace,            \* messages, prompts and git calls, in program order
    \* ---- cli/group.py: one call on one token list
    cpc,              \* position of the caller of GibrGroup
    args,             \* contents of the list object the caller passed
    args0,            \* its contents when the call was made
    returned,         \* contents of the list the last call returned
    same_object,      \* the returned list is the object that was passed
    applied,          \* names of the GibrGroup methods applied so far
    commands,         \* names registered in self.commands
    jira,             \* tokens for which JiraTracker.is_jira_issue is true
    linear,           \* tokens for which LinearTracker.is_linear_issue is true
    token,            \* the token passed to is_likely_non_digit_issue
    likely            \* what is_likely_non_digit_issue returned for it

vars == <<pc, outcome, branch_name, requested, is_push, dry_run,
          current_branch, in_repo, repo, closes, is_dirty, head_is_valid,
          head_is_detached, active_branch, heads, heads0, active0, detached0,
          trace, cpc, args, args0, returned, same_object, applied,
          commands, jira, linear, token, likely>>

\* what one step of the workflow may leave alone
request == <<requested, is_push, dry_run>>
worktree == <<in_repo, is_dirty, head_is_valid, heads0, active0, detached0>>
branches == <<head_is_detached, active_branch, heads>>
handle == <<repo, closes>>
locals == <<branch_name, current_branch>>
registry == <<commands, jira, linear>>
query == <<token, likely>>
cli == <<cpc, args, args0, returned, same_object, applied, registry, query>>
git == <<pc, outcome, locals, request, worktree, branches, handle, trace>>

\* no GibrGroup call is being made
CliIdle ==
    /\ cpc = "idle"
    /\ args = <<>> /\ args0 = <<>> /\ returned = <<>>
    /\ same_object = FALSE
    /\ applied = <<>>
    /\ commands = {} /\ jira = {} /\ linear = {}
    /\ token = <<>> /\ likely = FALSE

\* create_and_push_branch is not being run
GitIdle ==
    /\ pc = "idle" /\ outcome = "running"
    /\ requested = NoName /\ branch_name = NoName /\ current_branch = NoName
    /\ is_push = FALSE /\ dry_run = FALSE
    /\ in_repo = FALSE /\ repo = "none" /\ closes = 0
    /\ is_dirty = FALSE /\ head_is_valid = FALSE /\ head_is_detached = FALSE
    /\ active_branch = NoName /\ heads = {}
    /\ heads0 = {} /\ active0 = NoName /\ detached0 = FALSE
    /\ trace = <<>>

\* ---------------------------------------------------------------- events
Ev(kind, op, text, name, aux, res) ==
    [kind |-> kind, op |-> op, text |-> text, name |-> name, aux |-> aux,
     res |-> res]

\* gibr.notify: info, success and warning print one message and return
info(text, name, aux) == Ev("msg", "info", text, name, aux, "ok")
success(text, name, aux) == Ev("msg", "success", text, name, aux, "ok")
warning(text, name, aux) == Ev("msg", "warning", text, name, aux, "ok")

\* gibr.notify.error prints one message and then raises click.Abort
error(text, name, aux) ==
    [emit |-> Ev("msg", "error", text, name, aux, "ok"), raises |-> "Abort"]

\* a call into GitPython and what it did: "ok" or the exception raised
Call(op, name, aux, res) == Ev("call", op, "", name, aux, res)

\* click.confirm / click.prompt and the answer typed
Asked(op, text, aux, res) == Ev("prompt", op, text, NoName, aux, res)

\* repo.close()
Close == /\ repo' = "closed"
         /\ closes' = closes + 1

\* ------------------------------------------------------------------ Init
\* The caller's arguments and the repository found on disk.
Init ==
    /\ pc = "open"
    /\ outcome = "running"
    /\ requested \in BaseNames
    /\ branch_name = requested
    /\ is_push \in BOOLEAN
    /\ dry_run \in BOOLEAN
    /\ current_branch = NoName
    /\ in_repo \in BOOLEAN
    /\ repo = "none"
    /\ closes = 0
    /\ is_dirty \in BOOLEAN
    /\ head_is_valid \in BOOLEAN
    /\ head_is_detached \in BOOLEAN
    /\ active_branch \in BaseNames
    /\ heads \in SUBSET AllNames
    /\ heads0 = heads
    /\ active0 = active_branch
    /\ detached0 = head_is_detached
    /\ trace = <<>>
    /\ CliIdle

\* ------------------------------------------------- create_and_push_branch
\* mutant: a missing repository is handled by the GitCommandError handler
OpenRepo_WrongHandler ==
    /\ pc = "open"
    /\ IF in_repo
         THEN /\ repo' = "open"
              /\ pc' = "validate_dirty"
         ELSE /\ repo' = repo
              /\ pc' = "except_git"
    /\ UNCHANGED <<outcome, locals, request, worktree, cli, branches, closes,
                   trace>>

\* line 66: repo = Repo(".", search_parent_directories=True)
OpenRepo ==
    /\ pc = "open"
    /\ IF in_repo
         THEN /\ repo' = "open"
              /\ pc' = "validate_dirty"
         ELSE /\ repo' = repo
              /\ pc' = "except_invalid_repo"
    /\ UNCHANGED <<outcome, locals, request, worktree, cli, branches, closes,
                   trace>>

\* lines 110-111: except InvalidGitRepositoryError: error(...).
\* error() raises click.Abort, which leaves the function.
ExceptInvalidGitRepositoryError ==
    /\ pc = "except_invalid_repo"
    /\ LET e == error("Not a git repository (or any of the parent directories).",
                      NoName, NoName)
       IN /\ trace' = Append(trace, e.emit)
          /\ outcome' = e.raises
    /\ pc' = "done"
    /\ UNCHANGED <<locals, request, worktree, cli, branches, handle>>

\* mutant: the dirty-tree check is skipped in dry-run mode
ValidateDirty_SkipsDryRun ==
    /\ pc = "validate_dirty"
    /\ trace' = IF is_dirty /\ ~dry_run
                  THEN Append(trace,
                         warning("Working tree is dirty - uncommitted changes present.",
                                 NoName, NoName))
                  ELSE trace
    /\ pc' = "validate_head"
    /\ UNCHANGED <<outcome, locals, request, worktree, cli, branches, handle>>

\* _validate_repo_state, lines 16-17
ValidateDirty ==
    /\ pc = "validate_dirty"
    /\ trace' = IF is_dirty
                  THEN Append(trace,
                         warning("Working tree is dirty - uncommitted changes present.",
                                 NoName, NoName))
                  ELSE trace
    /\ pc' = "validate_head"
    /\ UNCHANGED <<outcome, locals, request, worktree, cli, branches, handle>>

\* mutant: the invalid-HEAD error is printed and validation goes on
ValidateHead_Continues ==
    /\ pc = "validate_head"
    /\ trace' = IF ~head_is_valid
                  THEN Append(trace,
                         error("Please make an initial commit before using gibr.",
                               NoName, NoName).emit)
                  ELSE trace
    /\ pc' = "validate_detached"
    /\ UNCHANGED <<outcome, locals, request, worktree, cli, branches, handle>>

\* _validate_repo_state, lines 19-21.  error() raises click.Abort at line
\* 20; no handler of create_and_push_branch catches it, so `return False`
\* (line 21) and the close-and-return of lines 69-70 are not executed.
ValidateHead ==
    /\ pc = "validate_head"
    /\ IF ~head_is_valid
         THEN LET e == error("Please make an initial commit before using gibr.",
                             NoName, NoName)
              IN /\ trace' = Append(trace, e.emit)
                 /\ outcome' = e.raises
                 /\ pc' = "done"
         ELSE /\ pc' = "validate_detached"
              /\ UNCHANGED <<trace, outcome>>
    /\ UNCHANGED <<locals, request, worktree, cli, branches, handle>>

\* mutant: a detached HEAD is reported as an error and stops the run
ValidateDetached_Fatal ==
    /\ pc = "validate_detached"
    /\ IF head_is_detached
         THEN LET e == error("HEAD is detached (not on a branch).",
                             NoName, NoName)
              IN /\ trace' = Append(trace, e.emit)
                 /\ outcome' = e.raises
                 /\ pc' = "done"
         ELSE /\ pc' = "check_conflict"
              /\ UNCHANGED <<trace, outcome>>
    /\ UNCHANGED <<locals, request, worktree, cli, branches, handle>>

\* _validate_repo_state, lines 23-26 (returns True), and line 68
ValidateDetached ==
    /\ pc = "validate_detached"
    /\ trace' = IF head_is_detached
                  THEN Append(trace,
                         warning("HEAD is detached (not on a branch).",
                                 NoName, NoName))
                  ELSE trace
    /\ pc' = "check_conflict"
    /\ UNCHANGED <<outcome, locals, request, worktree, cli, branches, handle>>

\* lines 72-76: current_branch = repo.active_branch.name;
\*              if branch_name in repo.heads
CheckConflict ==
    /\ pc = "check_conflict"
    /\ current_branch' = active_branch
    /\ pc' = IF branch_name \in heads THEN "existing" ELSE "execute"
    /\ UNCHANGED <<outcome, branch_name, request, worktree, cli, branches,
                   handle,
                   trace>>

\* mutant: the already-checked-out case warns and returns the name instead
\* of None, so the run goes on to EXECUTE
ExistingCheckedOut_FallsThrough ==
    /\ pc = "existing"
    /\ active_branch = branch_name
    /\ trace' = Append(trace,
                  warning("Branch '{}' already exists and is checked out",
                          branch_name, NoName))
    /\ pc' = "execute"
    /\ UNCHANGED <<outcome, locals, request, worktree, cli, branches, handle>>

\* _handle_existing_branch lines 34-38 (returns None), then lines 78-80
ExistingCheckedOut ==
    /\ pc = "existing"
    /\ active_branch = branch_name
    /\ trace' = Append(trace,
                  warning("Branch '{}' already exists and is checked out",
                          branch_name, NoName))
    /\ Close
    /\ pc' = "done"
    /\ outcome' = "returned"
    /\ UNCHANGED <<locals, request, worktree, cli, branches>>

\* _handle_existing_branch lines 36, 40
ExistingWarn ==
    /\ pc = "existing"
    /\ active_branch # branch_name
    /\ trace' = Append(trace,
                  warning("Branch '{}' already exists locally.",
                          branch_name, NoName))
    /\ pc' = "existing_mode"
    /\ UNCHANGED <<outcome, locals, request, worktree, cli, branches, handle>>

\* mutant: the dry-run conflict reports and returns the name instead of None
ExistingDryRun_FallsThrough ==
    /\ pc = "existing_mode"
    /\ dry_run
    /\ trace' = Append(trace,
                  info("[DRY RUN] Would prompt to create branch with suffix since '{}' exists.",
                       branch_name, NoName))
    /\ pc' = "execute"
    /\ UNCHANGED <<outcome, locals, request, worktree, cli, branches, handle>>

\* _handle_existing_branch lines 42-47 (returns None), then lines 78-80
ExistingDryRun ==
    /\ pc = "existing_mode"
    /\ dry_run
    /\ trace' = Append(trace,
                  info("[DRY RUN] Would prompt to create branch with suffix since '{}' exists.",
                       branch_name, NoName))
    /\ Close
    /\ pc' = "done"
    /\ outcome' = "returned"
    /\ UNCHANGED <<locals, request, worktree, cli, branches>>

\* mutant: the answer to click.confirm is ignored
ConfirmSuffix_IgnoresAnswer ==
    /\ pc = "existing_mode"
    /\ ~dry_run
    /\ \E answer \in {"yes", "no"} :
          /\ trace' = Append(trace,
                        Asked("confirm",
                              "Would you like to create a new branch with a suffix?",
                              NoName, answer))
          /\ pc' = "suffix"
    /\ UNCHANGED <<outcome, locals, request, worktree, cli, branches, handle>>

\* mutant: the confirmation is asked before dry_run is looked at
ConfirmSuffix_InDryRun ==
    /\ pc = "existing_mode"
    /\ \E answer \in {"yes", "no"} :
          /\ trace' = Append(trace,
                        Asked("confirm",
                              "Would you like to create a new branch with a suffix?",
                              NoName, answer))
          /\ pc' = IF answer = "yes" THEN "suffix" ELSE "canceled"
    /\ UNCHANGED <<outcome, locals, request, worktree, cli, branches, handle>>

\* _handle_existing_branch lines 49-51: click.confirm(..., default=True)
ConfirmSuffix ==
    /\ pc = "existing_mode"
    /\ ~dry_run
    /\ \E answer \in {"yes", "no"} :
          /\ trace' = Append(trace,
                        Asked("confirm",
                              "Would you like to create a new branch with a suffix?",
                              NoName, answer))
          /\ pc' = IF answer = "yes" THEN "suffix" ELSE "canceled"
    /\ UNCHANGED <<outcome, locals, request, worktree, cli, branches, handle>>

\* _handle_existing_branch lines 57-58 (returns None), then lines 78-80
CancelByUser ==
    /\ pc = "canceled"
    /\ trace' = Append(trace, info("Operation canceled by user.", NoName, NoName))
    /\ Close
    /\ pc' = "done"
    /\ outcome' = "returned"
    /\ UNCHANGED <<locals, request, worktree, cli, branches>>

\* mutant: line 81 is missing, branch_name keeps the original name
PromptSuffix_KeepsName ==
    /\ pc = "suffix"
    /\ \E suffix \in Suffixes :
          /\ trace' = trace \o
               <<Asked("prompt", "Enter suffix", suffix, "ok"),
                 info("Creating new branch '{}' instead.",
                      new_name(branch_name, suffix), NoName)>>
          /\ branch_name' = branch_name
    /\ pc' = "execute"
    /\ UNCHANGED <<outcome, current_branch, request, worktree, cli, branches,
                   handle>>

\* _handle_existing_branch lines 52-55 (returns new_name), then line 81
PromptSuffix ==
    /\ pc = "suffix"
    /\ \E suffix \in Suffixes :
          /\ trace' = trace \o
               <<Asked("prompt", "Enter suffix", suffix, "ok"),
                 info("Creating new branch '{}' instead.",
                      new_name(branch_name, suffix), NoName)>>
          /\ branch_name' = new_name(branch_name, suffix)
    /\ pc' = "execute"
    /\ UNCHANGED <<outcome, current_branch, request, worktree, cli, branches,
                   handle>>

\* mutant: the would-push message does not depend on is_push
DryRunReport_AlwaysPush ==
    /\ pc = "execute"
    /\ dry_run
    /\ trace' = trace \o
         <<info("[DRY RUN] Would create branch '{}' from {}.",
                branch_name, current_branch),
           info("[DRY RUN] Would checkout branch: {}", branch_name, NoName),
           info("[DRY RUN] Would push branch '{}' to origin.",
                branch_name, NoName)>>
    /\ Close
    /\ pc' = "done"
    /\ outcome' = "returned"
    /\ UNCHANGED <<locals, request, worktree, cli, branches>>

\* lines 83-91: the dry-run report, close and return
DryRunReport ==
    /\ pc = "execute"
    /\ dry_run
    /\ trace' = trace \o
         <<info("[DRY RUN] Would create branch '{}' from {}.",
                branch_name, current_branch),
           info("[DRY RUN] Would checkout branch: {}", branch_name, NoName)>>
         \o (IF is_push
               THEN <<info("[DRY RUN] Would push branch '{}' to origin.",
                           branch_name, NoName)>>
               ELSE <<>>)
    /\ Close
    /\ pc' = "done"
    /\ outcome' = "returned"
    /\ UNCHANGED <<locals, request, worktree, cli, branches>>

\* mutant: the branch is created without looking at dry_run
CreateHead_IgnoresDryRun ==
    /\ pc = "execute"
    /\ \E res \in {"ok", "GitCommandError"} :
          IF res = "ok"
            THEN /\ trace' = trace \o
                      <<Call("create_head", branch_name, NoName, res),
                        success("Created branch '{}' from {}.",
                                branch_name, current_branch)>>
                 /\ heads' = heads \cup {branch_name}
                 /\ pc' = "checkout"
            ELSE /\ trace' = Append(trace,
                               Call("create_head", branch_name, NoName, res))
                 /\ heads' = heads
                 /\ pc' = "except_git"
    /\ UNCHANGED <<outcome, locals, request, worktree, cli, head_is_detached,
                   active_branch, handle>>

\* mutant: a failed create_head is passed over and the checkout follows
CreateHead_PassesOverFailure ==
    /\ pc = "execute"
    /\ ~dry_run
    /\ \E res \in {"ok", "GitCommandError"} :
          IF res = "ok"
            THEN /\ trace' = trace \o
                      <<Call("create_head", branch_name, NoName, res),
                        success("Created branch '{}' from {}.",
                                branch_name, current_branch)>>
                 /\ heads' = heads \cup {branch_name}
                 /\ pc' = "checkout"
            ELSE /\ trace' = Append(trace,
                               Call("create_head", branch_name, NoName, res))
                 /\ heads' = heads
                 /\ pc' = "checkout"
    /\ UNCHANGED <<outcome, locals, request, worktree, cli, head_is_detached,
                   active_branch, handle>>

\* lines 94-95: new_branch = repo.create_head(branch_name); success(...)
CreateHead ==
    /\ pc = "execute"
    /\ ~dry_run
    /\ \E res \in {"ok", "GitCommandError"} :
          IF res = "ok"
            THEN /\ trace' = trace \o
                      <<Call("create_head", branch_name, NoName, res),
                        success("Created branch '{}' from {}.",
                                branch_name, current_branch)>>
                 /\ heads' = heads \cup {branch_name}
                 /\ pc' = "checkout"
            ELSE /\ trace' = Append(trace,
                               Call("create_head", branch_name, NoName, res))
                 /\ heads' = heads
                 /\ pc' = "except_git"
    /\ UNCHANGED <<outcome, locals, request, worktree, cli, head_is_detached,
                   active_branch, handle>>

\* mutant: the push follows the checkout whatever is_push says
Checkout_AlwaysPush ==
    /\ pc = "checkout"
    /\ \E res \in {"ok", "GitCommandError"} :
          IF res = "ok"
            THEN /\ trace' = trace \o
                      <<Call("checkout", branch_name, NoName, res),
                        success("Checked out branch: {}", branch_name, NoName)>>
                 /\ active_branch' = branch_name
                 /\ head_is_detached' = FALSE
                 /\ pc' = "push"
            ELSE /\ trace' = Append(trace,
                               Call("checkout", branch_name, NoName, res))
                 /\ UNCHANGED <<active_branch, head_is_detached>>
                 /\ pc' = "except_git"
    /\ UNCHANGED <<outcome, locals, request, worktree, cli, heads, handle>>

\* lines 98-99: new_branch.checkout(); success(...); line 101: if is_push
Checkout ==
    /\ pc = "checkout"
    /\ \E res \in {"ok", "GitCommandError"} :
          IF res = "ok"
            THEN /\ trace' = trace \o
                      <<Call("checkout", branch_name, NoName, res),
                        success("Checked out branch: {}", branch_name, NoName)>>
                 /\ active_branch' = branch_name
                 /\ head_is_detached' = FALSE
                 /\ pc' = IF is_push THEN "push" ELSE "close"
            ELSE /\ trace' = Append(trace,
                               Call("checkout", branch_name, NoName, res))
                 /\ UNCHANGED <<active_branch, head_is_detached>>
                 /\ pc' = "except_git"
    /\ UNCHANGED <<outcome, locals, request, worktree, cli, heads, handle>>

\* line 102: origin = repo.remote(name="origin")
remote_call == Call("remote", <<"origin">>, NoName, "ok")

\* mutant: the push does not set the upstream
push_call_NoUpstream(name, res) == Call("push", refspec(name), NoName, res)

\* lines 103-105: origin.push(refspec=f"{branch_name}:{branch_name}",
\*                            set_upstream=True)
push_call(name, res) == Call("push", refspec(name), <<"set_upstream">>, res)

\* line 106: push_result.raise_if_error()
raise_if_error_call(res) == Call("raise_if_error", NoName, NoName, res)

\* mutant: success is reported before the push result is inspected
push_events_SuccessBeforeInspect(name, res) ==
    CASE res = "ok" ->
           <<remote_call, push_call(name, "ok"),
             success("Pushed branch '{}' to origin.", name, NoName),
             raise_if_error_call("ok")>>
      [] res = "raised" ->
           <<remote_call, push_call(name, "GitCommandError")>>
      [] res = "rejected" ->
           <<remote_call, push_call(name, "ok"),
             success("Pushed branch '{}' to origin.", name, NoName),
             raise_if_error_call("GitCommandError")>>

\* lines 102-107, by what the remote does.
\* "raised": origin.push raises GitCommandError;
\* "rejected": push returns, raise_if_error raises the GitCommandError.
push_events(name, res) ==
    CASE res = "ok" ->
           <<remote_call, push_call(name, "ok"), raise_if_error_call("ok"),
             success("Pushed branch '{}' to origin.", name, NoName)>>
      [] res = "raised" ->
           <<remote_call, push_call(name, "GitCommandError")>>
      [] res = "rejected" ->
           <<remote_call, push_call(name, "ok"),
             raise_if_error_call("GitCommandError")>>

\* lines 101-107: if is_push: resolve origin, push, inspect, success(...)
Push ==
    /\ pc = "push"
    /\ \E res \in {"ok", "raised", "rejected"} :
          /\ trace' = trace \o push_events(branch_name, res)
          /\ pc' = IF res = "ok" THEN "close" ELSE "except_git"
    /\ UNCHANGED <<outcome, locals, request, worktree, cli, branches, handle>>

\* line 108: repo.close(), and the function returns
CloseRepo ==
    /\ pc = "close"
    /\ Close
    /\ pc' = "done"
    /\ outcome' = "returned"
    /\ UNCHANGED <<locals, request, worktree, cli, branches, trace>>

\* mutant: the handler puts the repository back as it was found
ExceptGitCommandError_RollsBack ==
    /\ pc = "except_git"
    /\ LET e == error("Git command failed: {}", NoName, NoName)
       IN /\ trace' = Append(trace, e.emit)
          /\ outcome' = e.raises
    /\ heads' = heads0
    /\ active_branch' = active0
    /\ head_is_detached' = detached0
    /\ pc' = "done"
    /\ UNCHANGED <<locals, request, worktree, cli, handle>>

\* mutant: the handler prints the message and lets the function return
ExceptGitCommandError_Returns ==
    /\ pc = "except_git"
    /\ trace' = Append(trace, error("Git command failed: {}", NoName, NoName).emit)
    /\ outcome' = "returned"
    /\ pc' = "done"
    /\ UNCHANGED <<locals, request, worktree, cli, branches, handle>>

\* lines 112-113: except GitCommandError as e: error(f"Git command failed: {e}")
\* error() raises click.Abort, which leaves the function.
ExceptGitCommandError ==
    /\ pc = "except_git"
    /\ LET e == error("Git command failed: {}", NoName, NoName)
       IN /\ trace' = Append(trace, e.emit)
          /\ outcome' = e.raises
    /\ pc' = "done"
    /\ UNCHANGED <<locals, request, worktree, cli, branches, handle>>

Next ==
    \/ OpenRepo
    \/ ExceptInvalidGitRepositoryError
    \/ ValidateDirty
    \/ ValidateHead
    \/ ValidateDetached
    \/ CheckConflict
    \/ ExistingCheckedOut
    \/ ExistingWarn
    \/ ExistingDryRun
    \/ ConfirmSuffix
    \/ CancelByUser
    \/ PromptSuffix
    \/ DryRunReport
    \/ CreateHead
    \/ Checkout
    \/ Push
    \/ CloseRepo
    \/ ExceptGitCommandError

Spec == Init /\ [][Next]_vars

\* ------------------------------------------------------- reading the trace
IsMsg(e) == e.kind = "msg"
IsCall(e) == e.kind = "call"
IsPrompt(e) == e.kind = "prompt"

Messages == SelectSeq(trace, IsMsg)
Calls == SelectSeq(trace, IsCall)
Prompts == SelectSeq(trace, IsPrompt)

Count(s, keep(_)) == Len(SelectSeq(s, keep))

IsInfo(e) == e.kind = "msg" /\ e.op = "info"
IsSuccess(e) == e.kind = "msg" /\ e.op = "success"
IsWarning(e) == e.kind = "msg" /\ e.op = "warning"
IsError(e) == e.kind = "msg" /\ e.op = "error"

Done == pc = "done"

\* a git call raised GitCommandError / which one
Failed(e) == e.kind = "call" /\ e.res = "GitCommandError"
FailedIn(ops) == \E i \in 1..Len(trace) : Failed(trace[i]) /\ trace[i].op \in ops
GitFailed == FailedIn({"create_head", "checkout", "push", "raise_if_error"})

IsCallOrSuccess(e) == IsCall(e) \/ IsSuccess(e)
IsSuccessOrError(e) == IsSuccess(e) \/ IsError(e)
IsMutation(e) == IsCall(e) /\ e.op \in {"create_head", "checkout", "remote", "push"}

GitFailedMsg == error("Git command failed: {}", NoName, NoName).emit
NotARepoMsg ==
    error("Not a git repository (or any of the parent directories).",
          NoName, NoName).emit

\* positions past CHECK_CONFLICT: EXECUTE and everything after it
ExecutePcs == {"execute", "checkout", "push", "close", "except_git"}

\* the run went through VALIDATE and found the requested name among the heads
Conflict == in_repo /\ head_is_valid /\ requested \in heads0

\* ================================================================ claims

\* C1: once the repository handle has been acquired it is closed exactly
\* once on every exit path of create_and_push_branch, early returns and
\* failure paths included: no run ends with the handle open, none closes
\* it twice.
C1_HandleReleasedExactlyOnce ==
    /\ closes <= 1
    /\ (Done /\ in_repo) => (repo = "closed" /\ closes = 1)

\* C2: with dry_run = true no mutating operation is performed in any
\* repository state and with either push flag: no create_head, no checkout,
\* no remote lookup, no push, the branches are unchanged and no success
\* message is emitted.
C2_DryRunNoMutation ==
    dry_run =>
        /\ Calls = <<>>
        /\ Count(trace, IsSuccess) = 0
        /\ heads = heads0
        /\ active_branch = active0

C2_Witness ==
    /\ dry_run /\ is_push /\ is_dirty
    /\ Done /\ outcome = "returned"
    /\ Count(trace, IsInfo) = 3

\* C3: a GitCommandError raised by create_head, checkout or push is caught
\* in create_and_push_branch and reported as exactly one error message
\* "Git command failed: ...", right after the failing call and as the last
\* event of the run, and the run then ends with click.Abort: it neither
\* returns normally nor lets the GitCommandError escape.
C3_GitFailureReportedThenAbort ==
    GitFailed =>
        /\ pc \in {"except_git", "done"}
        /\ outcome \in {"running", "Abort"}
        /\ Done =>
              /\ outcome = "Abort"
              /\ Count(trace, IsError) = 1
              /\ Count(trace, Failed) = 1
              /\ trace[Len(trace)] = GitFailedMsg
              /\ Failed(trace[Len(trace) - 1])

C3_Witness ==
    /\ Done /\ outcome = "Abort"
    /\ FailedIn({"checkout"})
    /\ trace[Len(trace)] = GitFailedMsg

\* C4 (as claimed): when no repository is found the condition is reported
\* once and create_and_push_branch returns to its caller without raising.
C4_NotARepoReturnsNormally ==
    (Done /\ ~in_repo) =>
        /\ outcome = "returned"
        /\ trace = <<NotARepoMsg>>

\* C4 (amended): when no repository is found the condition is reported
\* once through the error sink, which raises click.Abort out of
\* create_and_push_branch, as for a git-command failure; no git call, no
\* prompt, no close and no other message occurs on this path.
C4_NotARepoReportedThenAbort ==
    ~in_repo =>
        /\ repo = "none" /\ closes = 0
        /\ pc \in {"open", "except_invalid_repo", "done"}
        /\ Done => (outcome = "Abort" /\ trace = <<NotARepoMsg>>)
        /\ ~Done => (outcome = "running" /\ trace = <<>>)

C4_Witness ==
    /\ ~in_repo /\ Done
    /\ trace = <<NotARepoMsg>>

\* C5: a run with valid HEAD, no name conflict, dry_run = false and push
\* requested, in which create, checkout and push succeed, emits exactly the
\* three success messages created, checked-out, pushed, in this order, each
\* right after the git call it reports; push is called once, on the remote
\* "origin", with refspec "<name>:<name>" and set_upstream.
C5_SuccessOrderWithPush ==
    (/\ Done /\ outcome = "returned"
     /\ head_is_valid /\ requested \notin heads0
     /\ ~dry_run /\ is_push)
    => /\ SelectSeq(trace, IsCallOrSuccess) =
            <<Call("create_head", requested, NoName, "ok"),
              success("Created branch '{}' from {}.", requested, active0),
              Call("checkout", requested, NoName, "ok"),
              success("Checked out branch: {}", requested, NoName),
              Call("remote", <<"origin">>, NoName, "ok"),
              Call("push", requested \o <<":">> \o requested,
                   <<"set_upstream">>, "ok"),
              Call("raise_if_error", NoName, NoName, "ok"),
              success("Pushed branch '{}' to origin.", requested, NoName)>>
       /\ Count(trace, IsSuccess) = 3

C5_Witness ==
    /\ Done /\ outcome = "returned"
    /\ head_is_valid /\ requested \notin heads0
    /\ ~dry_run /\ is_push
    /\ Count(trace, IsSuccess) = 3

\* C6: when push fails after create and checkout succeeded, by the push
\* call raising or by the returned result reporting an error on inspection,
\* the run has emitted exactly the two success messages created and
\* checked-out before exactly one error message, never emits the "Pushed"
\* success message, and ends with click.Abort.
C6_PushFailure ==
    FailedIn({"push", "raise_if_error"}) =>
        /\ \A i \in 1..Len(trace) :
              ~(IsSuccess(trace[i]) /\ trace[i].text = "Pushed branch '{}' to origin.")
        /\ Count(trace, IsSuccess) = 2
        /\ Done =>
              /\ outcome = "Abort"
              /\ SelectSeq(trace, IsSuccessOrError) =
                   <<success("Created branch '{}' from {}.", branch_name, current_branch),
                     success("Checked out branch: {}", branch_name, NoName),
                     GitFailedMsg>>

C6_Witness ==
    /\ Done /\ outcome = "Abort"
    /\ FailedIn({"raise_if_error"})
    /\ Count(trace, IsSuccess) = 2
    /\ Count(trace, IsError) = 1

CheckedOutMsg(n) ==
    warning("Branch '{}' already exists and is checked out", n, NoName)
ExistsLocallyMsg(n) ==
    warning("Branch '{}' already exists locally.", n, NoName)
IsCheckedOutMsg(e) == e = CheckedOutMsg(requested)
IsExistsLocallyMsg(e) == e = ExistsLocallyMsg(requested)
IsNotWarning(e) == ~IsWarning(e)

Declined ==
    \E i \in 1..Len(trace) :
        IsPrompt(trace[i]) /\ trace[i].op = "confirm" /\ trace[i].res = "no"
AcceptedWith(s) ==
    \E i \in 1..Len(trace) :
        IsPrompt(trace[i]) /\ trace[i].op = "prompt" /\ trace[i].aux = s

\* the advisory warnings _validate_repo_state emits for this repository
Advisories == (IF is_dirty THEN 1 ELSE 0) + (IF detached0 THEN 1 ELSE 0)

\* C7 (as claimed): if the requested name exists locally and is the active
\* branch then, whatever the dirty state, dry_run and push, no git mutation
\* call is made, no prompt is shown, EXECUTE is never reached and the whole
\* run emits a single warning.  Stated here for an attached HEAD, the case
\* in which the claim promises the least.
C7_NoopSingleWarning ==
    (Conflict /\ requested = active0 /\ ~head_is_detached) =>
        /\ Calls = <<>>
        /\ Prompts = <<>>
        /\ pc \notin ExecutePcs
        /\ Done => Count(trace, IsWarning) = 1

\* C7 (amended): if HEAD is valid and the requested name exists locally and
\* is the active branch then, whatever the dirty / detached state, dry_run
\* and push, no git mutation call is made, no prompt is shown, EXECUTE is
\* never reached, and exactly one "already exists and is checked out"
\* warning is emitted, as the last message of a run that returns normally;
\* the only other messages are the dirty-tree and detached-HEAD warnings of
\* validation, so the run has a single warning exactly when the tree is
\* clean and HEAD is attached.
C7_NoopOneCheckedOutWarning ==
    (Conflict /\ requested = active0) =>
        /\ Calls = <<>>
        /\ Prompts = <<>>
        /\ pc \notin ExecutePcs
        /\ heads = heads0 /\ active_branch = active0
        /\ Done =>
              /\ outcome = "returned"
              /\ Count(trace, IsCheckedOutMsg) = 1
              /\ trace[Len(trace)] = CheckedOutMsg(requested)
              /\ Count(trace, IsNotWarning) = 0
              /\ Count(trace, IsWarning) = 1 + Advisories

C7_Witness ==
    /\ Conflict /\ requested = active0
    /\ is_dirty /\ ~dry_run /\ is_push
    /\ Done
    /\ Count(trace, IsWarning) = 2

\* C8: on a name conflict outside dry-run (the requested name exists locally
\* and is not the active branch), declining the confirmation leads to
\* exactly one info message, the cancellation, no create_head, checkout or
\* push call, no suffix prompt, and a normal return.
C8_DeclineCancels ==
    (Conflict /\ requested # active0 /\ ~dry_run /\ Declined) =>
        /\ Calls = <<>>
        /\ Prompts = <<Asked("confirm",
                             "Would you like to create a new branch with a suffix?",
                             NoName, "no")>>
        /\ pc \in {"canceled", "done"}
        /\ heads = heads0 /\ active_branch = active0
        /\ Done =>
              /\ outcome = "returned"
              /\ SelectSeq(trace, IsInfo) =
                   <<info("Operation canceled by user.", NoName, NoName)>>
              /\ Count(trace, IsSuccess) = 0
              /\ Count(trace, IsError) = 0

C8_Witness ==
    /\ Conflict /\ requested # active0 /\ ~dry_run /\ is_push
    /\ Declined /\ Done
    /\ Count(trace, IsInfo) = 1

\* C9: on a name conflict outside dry-run where the user accepts and enters
\* suffix s, the run goes to EXECUTE with the name "<original>-s" whether
\* or not that name is itself an existing branch: exactly one info message
\* announces the new name, create_head is called exactly once, with
\* "<original>-s", and checkout, the success messages and the push refspec
\* all carry the new name, never the original.
C9_SuffixedNameUsed ==
    \A s \in Suffixes :
        AcceptedWith(s) =>
            LET nn == requested \o <<"-">> \o s
            IN  /\ ~dry_run /\ Conflict /\ requested # active0
                /\ branch_name = nn
                /\ pc \in ExecutePcs \cup {"done"}
                /\ SelectSeq(trace, IsInfo) =
                     <<info("Creating new branch '{}' instead.", nn, NoName)>>
                /\ \A i \in 1..Len(trace) :
                      /\ (IsCall(trace[i]) /\ trace[i].op \in {"create_head", "checkout"})
                            => trace[i].name = nn
                      /\ (IsCall(trace[i]) /\ trace[i].op = "push")
                            => trace[i].name = nn \o <<":">> \o nn
                      /\ IsSuccess(trace[i]) => trace[i].name = nn
                /\ Count(trace, LAMBDA e : IsCall(e) /\ e.op = "create_head") <= 1
                /\ Done =>
                      Count(trace, LAMBDA e : IsCall(e) /\ e.op = "create_head") = 1

\* the accepted suffix produced a name that was itself an existing branch
C9_Witness ==
    \E s \in Suffixes :
        /\ AcceptedWith(s)
        /\ (requested \o <<"-">> \o s) \in heads0
        /\ is_push
        /\ Done /\ outcome = "returned"
        /\ Count(trace, IsSuccess) = 3

\* C10: in dry-run mode, when the requested name exists locally and is not
\* the active branch, the run emits exactly one "already exists locally"
\* warning and exactly one info message (the suffix prompt that would
\* occur), shows neither prompt, emits none of the would-create /
\* would-checkout / would-push messages, makes no git call, leaves the
\* branches unchanged and returns.
C10_DryRunConflictShortCircuits ==
    (Conflict /\ requested # active0 /\ dry_run) =>
        /\ Calls = <<>>
        /\ Prompts = <<>>
        /\ pc \notin ExecutePcs
        /\ heads = heads0 /\ active_branch = active0
        /\ Done =>
              /\ outcome = "returned"
              /\ Count(trace, IsExistsLocallyMsg) = 1
              /\ SelectSeq(trace, IsInfo) =
                   <<info("[DRY RUN] Would prompt to create branch with suffix since '{}' exists.",
                          requested, NoName)>>
              /\ Count(trace, IsSuccess) = 0
              /\ Count(trace, IsError) = 0

C10_Witness ==
    /\ Conflict /\ requested # active0 /\ dry_run /\ is_push
    /\ Done
    /\ Count(trace, IsInfo) = 1
    /\ Count(trace, IsExistsLocallyMsg) = 1

\* ------------------------------------------------- validation and EXECUTE
DirtyMsg ==
    warning("Working tree is dirty - uncommitted changes present.",
            NoName, NoName)
DetachedMsg == warning("HEAD is detached (not on a branch).", NoName, NoName)
NoCommitMsg ==
    error("Please make an initial commit before using gibr.",
          NoName, NoName).emit
IsDirtyMsg(e) == e = DirtyMsg
IsDetachedMsg(e) == e = DetachedMsg
IsCreateCall(e) == IsCall(e) /\ e.op = "create_head"
IsRemoteOrPush(e) == IsCall(e) /\ e.op \in {"remote", "push", "raise_if_error"}
IsConfirm(e) == IsPrompt(e) /\ e.op = "confirm"
IsSuffixPrompt(e) == IsPrompt(e) /\ e.op = "prompt"

ConfirmAsked(answer) ==
    Asked("confirm", "Would you like to create a new branch with a suffix?",
          NoName, answer)

\* the git calls of a run on name n in which every call succeeds
AllCalls(n, push) ==
    <<Call("create_head", n, NoName, "ok"), Call("checkout", n, NoName, "ok")>>
    \o (IF push
          THEN <<Call("remote", <<"origin">>, NoName, "ok"),
                 Call("push", n \o <<":">> \o n, <<"set_upstream">>, "ok"),
                 Call("raise_if_error", NoName, NoName, "ok")>>
          ELSE <<>>)

\* C11: a dry run that reaches EXECUTE (HEAD valid, requested name not a
\* local branch) emits exactly the info messages would-create,
\* would-checkout and, only if push is requested, would-push, in this
\* order: 2 info messages without push, 3 with push, and no other info.
C11_DryRunReportMessages ==
    (in_repo /\ head_is_valid /\ requested \notin heads0 /\ dry_run /\ Done) =>
        /\ SelectSeq(trace, IsInfo) =
             <<info("[DRY RUN] Would create branch '{}' from {}.",
                    requested, active0),
               info("[DRY RUN] Would checkout branch: {}", requested, NoName)>>
             \o (IF is_push
                   THEN <<info("[DRY RUN] Would push branch '{}' to origin.",
                               requested, NoName)>>
                   ELSE <<>>)
        /\ Count(trace, IsInfo) = IF is_push THEN 3 ELSE 2

C11_Witness ==
    /\ in_repo /\ head_is_valid /\ requested \notin heads0
    /\ dry_run /\ ~is_push
    /\ Done
    /\ Count(trace, IsInfo) = 2

\* C12: when the working tree is dirty the dirty-tree warning is emitted
\* exactly once per run and is the first event of the run: it precedes the
\* HEAD-validity check and every other message, prompt and git call, also
\* when HEAD is invalid and in dry-run mode.
C12_DirtyWarningFirst ==
    (in_repo /\ is_dirty) =>
        /\ pc \in {"open", "validate_dirty"} => trace = <<>>
        /\ pc = "validate_head" => trace = <<DirtyMsg>>
        /\ pc \notin {"open", "validate_dirty"} =>
              /\ trace # <<>>
              /\ trace[1] = DirtyMsg
              /\ Count(trace, IsDirtyMsg) = 1

C12_Witness ==
    /\ in_repo /\ is_dirty /\ ~head_is_valid /\ dry_run
    /\ Done
    /\ Len(trace) = 2
    /\ trace[1] = DirtyMsg

\* C13: HEAD validity is the only validation outcome that stops the run.
\* With an invalid HEAD, dry-run or not, exactly one error is emitted and
\* the run ends with no detached-HEAD warning, no conflict check, no prompt
\* and no git call.  With a valid HEAD a dirty tree and a detached HEAD add
\* one warning each and nothing else: the conflict check runs, EXECUTE is
\* reached when there is no conflict, and a run whose calls all succeed
\* makes the git calls of a clean, attached repository.
C13_OnlyInvalidHeadStops ==
    /\ (in_repo /\ ~head_is_valid) =>
          /\ pc \in {"open", "validate_dirty", "validate_head", "done"}
          /\ Calls = <<>> /\ Prompts = <<>>
          /\ current_branch = NoName
          /\ Count(trace, IsDetachedMsg) = 0
          /\ Done => trace = (IF is_dirty THEN <<DirtyMsg>> ELSE <<>>)
                               \o <<NoCommitMsg>>
    /\ (in_repo /\ head_is_valid /\ Done) =>
          /\ current_branch = active0
          /\ Count(trace, IsDirtyMsg) = (IF is_dirty THEN 1 ELSE 0)
          /\ Count(trace, IsDetachedMsg) = (IF detached0 THEN 1 ELSE 0)
          /\ Count(trace, IsError) = (IF GitFailed THEN 1 ELSE 0)
          /\ (requested \notin heads0 /\ ~dry_run) =>
                /\ Calls # <<>>
                /\ Calls[1].op = "create_head" /\ Calls[1].name = requested
          /\ (requested \notin heads0 /\ ~dry_run /\ outcome = "returned") =>
                Calls = AllCalls(requested, is_push)

C13_Witness ==
    /\ in_repo /\ head_is_valid /\ is_dirty /\ detached0
    /\ requested \notin heads0 /\ ~dry_run /\ is_push
    /\ Done /\ outcome = "returned"
    /\ Count(trace, IsWarning) = 2
    /\ Count(trace, IsSuccess) = 3

\* C14: with is_push = false and dry_run = false a successful run creates
\* and checks out the branch and emits exactly the two success messages
\* created and checked-out; origin is never resolved and push never called.
C14_NoPushRequested ==
    ~is_push =>
        /\ Count(trace, IsRemoteOrPush) = 0
        /\ (in_repo /\ ~dry_run /\ Done /\ outcome = "returned" /\ Calls # <<>>) =>
              /\ SelectSeq(trace, IsCallOrSuccess) =
                   <<Call("create_head", branch_name, NoName, "ok"),
                     success("Created branch '{}' from {}.", branch_name, active0),
                     Call("checkout", branch_name, NoName, "ok"),
                     success("Checked out branch: {}", branch_name, NoName)>>
              /\ branch_name \in heads
              /\ active_branch = branch_name

C14_Witness ==
    /\ in_repo /\ ~is_push /\ ~dry_run
    /\ Done /\ outcome = "returned"
    /\ Count(trace, IsSuccess) = 2
    /\ active_branch = requested /\ requested # active0

\* C15: every run ends in exactly one of two ways: it returns normally
\* having emitted no error message, or it aborts right after an error
\* message.  A run emits at most one error message, and no message, prompt
\* or git call follows it.
C15_ReturnOrAbortAfterError ==
    /\ Count(trace, IsError) <= 1
    /\ \A i \in 1..Len(trace) :
          IsError(trace[i]) => (i = Len(trace) /\ Done /\ outcome = "Abort")
    /\ Done => outcome \in {"returned", "Abort"}
    /\ ~Done => outcome = "running"
    /\ outcome = "returned" => Count(trace, IsError) = 0
    /\ outcome = "Abort" => (trace # <<>> /\ IsError(trace[Len(trace)]))

C15_Witness ==
    /\ Done /\ outcome = "Abort"
    /\ in_repo /\ ~head_is_valid /\ is_dirty
    /\ trace[Len(trace)] = NoCommitMsg

\* C16: the prompts are reached only on the conflict path outside dry-run:
\* a run shows the confirmation if and only if HEAD is valid, the requested
\* name exists locally, differs from the active branch and dry_run is
\* false; the suffix prompt is shown only after the confirmation was
\* accepted; each prompt is shown at most once.
C16_PromptsOnlyOnConflict ==
    /\ Count(trace, IsConfirm) > 0 =>
          (Conflict /\ requested # active0 /\ ~dry_run)
    /\ (Done /\ Conflict /\ requested # active0 /\ ~dry_run) =>
          Count(trace, IsConfirm) = 1
    /\ Prompts \in {<<>>, <<ConfirmAsked("no")>>, <<ConfirmAsked("yes")>>}
                   \cup {<<ConfirmAsked("yes"),
                           Asked("prompt", "Enter suffix", s, "ok")>> :
                         s \in Suffixes}

C16_Witness ==
    /\ Conflict /\ requested # active0 /\ ~dry_run
    /\ Done
    /\ Count(trace, IsConfirm) = 1
    /\ Count(trace, IsSuffixPrompt) = 1

\* ============================================================ cli/group.py
\* tokens, as sequences of characters
T_git == <<"g", "i", "t">>
T_create == <<"c", "r", "e", "a", "t", "e">>
T_verbose == <<"-", "-", "v", "e", "r", "b", "o", "s", "e">>
T_json == <<"-", "-", "j", "s", "o", "n">>
T_issues == <<"i", "s", "s", "u", "e", "s">>
T_123 == <<"1", "2", "3">>
T_ABC123 == <<"A", "B", "C", "-", "1", "2", "3">>

Tokens == {T_git, T_verbose, T_json, T_issues, T_123, T_ABC123}
TokenLists == UNION {[1..n -> Tokens] : n \in 0..MaxArgs}

\* the registries and the tracker predicates the lists are rewritten under
CommandSets == {{}, {T_issues, T_create}, {T_issues, T_create, T_123}}
JiraSets == SUBSET {T_ABC123, T_issues, T_create}
LinearSets == SUBSET {T_ABC123}

\* line 8: GLOBAL_FLAGS = ["--verbose"]
GLOBAL_FLAGS == {T_verbose}

\* str.startswith
startswith(arg, prefix) ==
    /\ Len(arg) >= Len(prefix)
    /\ SubSeq(arg, 1, Len(prefix)) = prefix

\* str.isdigit
isdigit(arg) ==
    /\ Len(arg) > 0
    /\ \A i \in 1..Len(arg) :
          arg[i] \in {"0", "1", "2", "3", "4", "5", "6", "7", "8", "9"}

\* list.insert(i, x), with i counted from 1: x goes before a[i]
insert(a, i, x) == SubSeq(a, 1, i - 1) \o <<x>> \o SubSeq(a, i, Len(a))

\* JiraTracker.is_jira_issue / LinearTracker.is_linear_issue: pure
\* predicates of the token
is_jira_issue(arg) == arg \in jira
is_linear_issue(arg) == arg \in linear

\* mutant: only the Jira predicate is asked
is_likely_non_digit_issue_JiraOnly(arg) == is_jira_issue(arg)

\* lines 14-17
is_likely_non_digit_issue(arg) == is_jira_issue(arg) \/ is_linear_issue(arg)

in_global_flags(a) == a \in GLOBAL_FLAGS
not_in_global_flags(a) == a \notin GLOBAL_FLAGS

\* mutant: the global flags are moved whether or not the alias leads
handle_git_alias_AlwaysReorders(a) ==
    LET popped == IF a # <<>> /\ a[1] = T_git THEN Tail(a) ELSE a
        flags == SelectSeq(popped, in_global_flags)
        rest == SelectSeq(popped, not_in_global_flags)
    IN  [args |-> popped, ret |-> flags \o rest, same |-> FALSE]

\* mutant: the alias is dropped from a copy, the passed list is not touched
handle_git_alias_PopsCopy(a) ==
    IF a # <<>> /\ a[1] = T_git
      THEN LET popped == Tail(a)
               flags == SelectSeq(popped, in_global_flags)
               rest == SelectSeq(popped, not_in_global_flags)
           IN  [args |-> a, ret |-> flags \o rest, same |-> FALSE]
      ELSE [args |-> a, ret |-> a, same |-> TRUE]

\* mutant: the two groups are joined the other way round
handle_git_alias_RestFirst(a) ==
    IF a # <<>> /\ a[1] = T_git
      THEN LET popped == Tail(a)
               flags == SelectSeq(popped, in_global_flags)
               rest == SelectSeq(popped, not_in_global_flags)
           IN  [args |-> popped, ret |-> rest \o flags, same |-> FALSE]
      ELSE [args |-> a, ret |-> a, same |-> TRUE]

\* lines 19-29.  args: what the passed list holds afterwards (args.pop(0)
\* works on the caller's list); ret: the list returned; same: ret is the
\* passed list itself.
handle_git_alias(a) ==
    IF a # <<>> /\ a[1] = T_git
      THEN LET popped == Tail(a)
               flags == SelectSeq(popped, in_global_flags)
               rest == SelectSeq(popped, not_in_global_flags)
           IN  [args |-> popped, ret |-> flags \o rest, same |-> FALSE]
      ELSE [args |-> a, ret |-> a, same |-> TRUE]

\* lines 34-35 and 40: the index of the first token that does not start
\* with "--", 0 when the loop ends without finding one
RECURSIVE first_non_flag(_, _)
first_non_flag(a, i) ==
    IF i > Len(a) THEN 0
    ELSE IF ~startswith(a[i], <<"-", "-">>) THEN i
    ELSE first_non_flag(a, i + 1)

\* mutant: every unregistered token counts as an issue reference
needs_create_AnyUnregistered(arg) ==
    arg \notin commands

\* mutant: the registry is not consulted
needs_create_IgnoresRegistry(arg) ==
    isdigit(arg) \/ is_likely_non_digit_issue(arg)

\* lines 36-38
needs_create(arg) ==
    /\ arg \notin commands
    /\ (isdigit(arg) \/ is_likely_non_digit_issue(arg))

\* mutant: the loop has no break, the scan goes on to the first token that
\* qualifies
handle_create_command_NoBreak(a) ==
    LET q == {i \in 1..Len(a) :
                 ~startswith(a[i], <<"-", "-">>) /\ needs_create(a[i])}
    IN  IF q # {}
          THEN insert(a, CHOOSE i \in q : \A j \in q : i <= j, T_create)
          ELSE a

\* mutant: "create" is inserted at the front of the list
handle_create_command_InsertsFront(a) ==
    LET i == first_non_flag(a, 1)
    IN  IF i # 0 /\ needs_create(a[i]) THEN insert(a, 1, T_create) ELSE a

\* lines 31-41: the contents of args afterwards; the method inserts into
\* the passed list and returns that list
handle_create_command(a) ==
    LET i == first_non_flag(a, 1)
    IN  IF i # 0 /\ needs_create(a[i]) THEN insert(a, i, T_create) ELSE a

\* a caller about to call one GibrGroup method on a token list
ArgsInit ==
    /\ GitIdle
    /\ cpc = "ready"
    /\ args \in TokenLists
    /\ args0 = args
    /\ returned = <<>>
    /\ same_object = FALSE
    /\ applied = <<>>
    /\ commands \in CommandSets
    /\ jira \in JiraSets
    /\ linear \in LinearSets
    /\ token = <<>>
    /\ likely = FALSE

\* a call of handle_git_alias(args)
HandleGitAlias ==
    /\ cpc = "ready"
    /\ LET r == handle_git_alias(args)
       IN  /\ args' = r.args
           /\ returned' = r.ret
           /\ same_object' = r.same
    /\ applied' = Append(applied, "handle_git_alias")
    /\ cpc' = "done"
    /\ UNCHANGED <<args0, query, registry, git>>

\* a call of self.handle_create_command(args), on the caller's list or on
\* the list a first call returned
HandleCreateCommand ==
    /\ \/ cpc = "ready"
       \/ cpc = "done" /\ applied = <<"handle_create_command">>
    /\ args' = handle_create_command(args)
    /\ returned' = args'
    /\ same_object' = TRUE
    /\ applied' = Append(applied, "handle_create_command")
    /\ cpc' = "done"
    /\ UNCHANGED <<args0, query, registry, git>>

\* a call of is_likely_non_digit_issue on one of the tokens
IsLikelyNonDigitIssue ==
    /\ cpc = "ready"
    /\ \E k \in 1..Len(args) :
          /\ token' = args[k]
          /\ likely' = is_likely_non_digit_issue(args[k])
    /\ applied' = Append(applied, "is_likely_non_digit_issue")
    /\ cpc' = "done"
    /\ UNCHANGED <<args, args0, returned, same_object, registry, git>>

\* mutant: the alias is dropped and the tokens are left in their order
ParseArgsAlias_KeepsOrder ==
    /\ cpc = "ready"
    /\ args' = handle_git_alias(args).args
    /\ applied' = Append(applied, "parse_args")
    /\ cpc' = "parse_create"
    /\ UNCHANGED <<args0, query, returned, same_object, registry, git>>

\* parse_args line 45: args[:] = self.handle_git_alias(args)
ParseArgsAlias ==
    /\ cpc = "ready"
    /\ args' = handle_git_alias(args).ret
    /\ applied' = Append(applied, "parse_args")
    /\ cpc' = "parse_create"
    /\ UNCHANGED <<args0, query, returned, same_object, registry, git>>

\* parse_args lines 46-47: args = self.handle_create_command(args), and
\* the list is handed to click's parse_args
ParseArgsCreate ==
    /\ cpc = "parse_create"
    /\ args' = handle_create_command(args)
    /\ returned' = args'
    /\ same_object' = TRUE
    /\ cpc' = "done"
    /\ UNCHANGED <<args0, query, applied, registry, git>>

ArgsNext ==
    \/ HandleGitAlias
    \/ HandleCreateCommand
    \/ IsLikelyNonDigitIssue
    \/ ParseArgsAlias
    \/ ParseArgsCreate

ArgsSpec == ArgsInit /\ [][ArgsNext]_vars

Returned(method) == cpc = "done" /\ applied = <<method>>

\* ------------------------------------------------------ claims on group.py
\* how often token t occurs in list a
Occurrences(a, t) == Cardinality({i \in 1..Len(a) : a[i] = t})
SameTokens(a, b) ==
    \A t \in Tokens \cup {T_create} : Occurrences(a, t) = Occurrences(b, t)

IsLongFlag(t) == Len(t) >= 2 /\ t[1] = "-" /\ t[2] = "-"
AllDigits(t) ==
    t # <<>> /\ \A k \in 1..Len(t) : t[k] \in {"0", "1", "2", "3", "4", "5", "6", "7", "8", "9"}

\* i is the position of the first token of a that does not start with "--"
FirstPositional(a, i) ==
    /\ i \in 1..Len(a)
    /\ ~IsLongFlag(a[i])
    /\ \A j \in 1..(i - 1) : IsLongFlag(a[j])

\* b is a with some tokens left out: the tokens of b, in their order, occur
\* in a
RECURSIVE Subsequence(_, _)
Subsequence(b, a) ==
    IF b = <<>> THEN TRUE
    ELSE IF a = <<>> THEN FALSE
    ELSE IF Head(a) = Head(b) THEN Subsequence(Tail(b), Tail(a))
    ELSE Subsequence(b, Tail(a))

\* C17: for every token list whose first token is not "git" (the empty
\* list and lists with "git" at a later position included)
\* handle_git_alias returns the same tokens in the same order: no global
\* flag is moved and nothing is removed.
C17_NoAliasIdentity ==
    (Returned("handle_git_alias") /\ (args0 = <<>> \/ args0[1] # T_git)) =>
        /\ returned = args0
        /\ args = args0

C17_Witness ==
    /\ Returned("handle_git_alias")
    /\ args0 = <<T_issues, T_git, T_json, T_verbose>>
    /\ returned = args0

\* C18: for every token list that starts with "git", handle_git_alias
\* removes exactly that one leading token and returns the remaining tokens
\* with every global flag ("--verbose") before every other token and the
\* order inside each of the two groups as it was; no other token is
\* dropped, added or duplicated.
C18_AliasMovesGlobalFlags ==
    (Returned("handle_git_alias") /\ args0 # <<>> /\ args0[1] = T_git) =>
        /\ Len(returned) = Len(args0) - 1
        /\ SameTokens(returned, Tail(args0))
        /\ \A i, j \in 1..Len(returned) :
              (i < j /\ returned[j] = T_verbose) => returned[i] = T_verbose
        /\ \E n \in 0..Len(returned) :
              /\ \A i \in 1..n : returned[i] = T_verbose
              /\ \A i \in (n + 1)..Len(returned) : returned[i] # T_verbose
              /\ Subsequence(SubSeq(returned, n + 1, Len(returned)), Tail(args0))
              /\ n = Occurrences(Tail(args0), T_verbose)

C18_Witness ==
    /\ Returned("handle_git_alias")
    /\ args0 = <<T_git, T_issues, T_verbose, T_json>>
    /\ returned = <<T_verbose, T_issues, T_json>>

\* C19: if the first token that does not start with "--" is a registered
\* subcommand name, handle_create_command leaves the token list unchanged,
\* whatever the tracker predicates return for that token and also when the
\* token is all digits.
C19_RegisteredCommandUnchanged ==
    Returned("handle_create_command") =>
        \A i \in 1..Len(args0) :
            (FirstPositional(args0, i) /\ args0[i] \in commands) =>
                returned = args0

C19_Witness ==
    /\ Returned("handle_create_command")
    /\ args0 = <<T_verbose, T_123, T_ABC123>>
    /\ T_123 \in commands
    /\ T_ABC123 \in jira
    /\ returned = args0

\* C20: if the first token that does not start with "--" is not a
\* registered subcommand and is all digits or satisfies either tracker
\* predicate, handle_create_command inserts "create" exactly once, right
\* before that token and after every preceding "--" flag; all other tokens
\* keep their order and the result is exactly one token longer.
C20_CreateInsertedOnce ==
    Returned("handle_create_command") =>
        \A i \in 1..Len(args0) :
            (/\ FirstPositional(args0, i)
             /\ args0[i] \notin commands
             /\ (AllDigits(args0[i]) \/ args0[i] \in jira \/ args0[i] \in linear))
            => /\ Len(returned) = Len(args0) + 1
               /\ returned[i] = T_create
               /\ \A k \in 1..(i - 1) : returned[k] = args0[k]
               /\ \A k \in i..Len(args0) : returned[k + 1] = args0[k]
               /\ Occurrences(returned, T_create) = Occurrences(args0, T_create) + 1

C20_Witness ==
    /\ Returned("handle_create_command")
    /\ args0 = <<T_verbose, T_json, T_ABC123, T_123>>
    /\ T_ABC123 \in linear /\ T_ABC123 \notin jira
    /\ returned = <<T_verbose, T_json, T_create, T_ABC123, T_123>>

\* C21: handle_create_command looks at the first token that does not start
\* with "--" and at no other: if that token is not registered, not all
\* digits and satisfies neither tracker predicate, the list is returned
\* unchanged even when a later token would qualify; a list that is empty or
\* holds only "--" tokens is returned unchanged, and the call returns.
C21_OnlyFirstPositionalExamined ==
    Returned("handle_create_command") =>
        /\ \A i \in 1..Len(args0) :
              (/\ FirstPositional(args0, i)
               /\ args0[i] \notin commands
               /\ ~AllDigits(args0[i])
               /\ args0[i] \notin jira /\ args0[i] \notin linear)
              => (returned = args0 /\ args = args0)
        /\ (\A i \in 1..Len(args0) : IsLongFlag(args0[i]))
              => (returned = args0 /\ args = args0)

C21_Witness ==
    /\ Returned("handle_create_command")
    /\ args0 = <<T_json, T_git, T_123, T_ABC123>>
    /\ T_123 \notin commands
    /\ T_ABC123 \in jira
    /\ returned = args0

C21_WitnessOnlyFlags ==
    /\ Returned("handle_create_command")
    /\ args0 = <<T_verbose, T_json>>
    /\ returned = args0

\* C22 as claimed: neither handle_git_alias nor handle_create_command
\* modifies the token list it was given; after the call the caller's list
\* holds what it held before.
C22_CallerListUnchanged ==
    (Returned("handle_git_alias") \/ Returned("handle_create_command")) =>
        args = args0

\* C22: both passes work on the list they are given.  handle_git_alias
\* removes a leading "git" from the passed list and returns a new list
\* (global flags first); without the alias it returns the passed list
\* itself, untouched.  handle_create_command inserts "create" into the
\* passed list and returns that same list, so the caller sees the
\* insertion.  No step of either pass, nor of parse_args, changes the
\* command registry or the tracker predicates.
C22_PassesRewriteInPlace ==
    [][/\ registry' = registry
       /\ (cpc = "ready" /\ applied' = <<"handle_git_alias">>) =>
             IF args # <<>> /\ args[1] = T_git
               THEN args' = Tail(args) /\ ~same_object'
               ELSE args' = args /\ returned' = args /\ same_object'
       /\ (cpc = "ready" /\ applied' = <<"handle_create_command">>) =>
             /\ same_object'
             /\ args' = returned'
             /\ Subsequence(args, args')
             /\ Len(args') <= Len(args) + 1]_vars

C22_Witness ==
    /\ Returned("handle_git_alias")
    /\ args0 = <<T_git, T_123, T_verbose>>
    /\ args = <<T_123, T_verbose>>
    /\ returned = <<T_verbose, T_123>>
    /\ ~same_object

C22_WitnessInsert ==
    /\ Returned("handle_create_command")
    /\ args0 = <<T_123>>
    /\ args = <<T_create, T_123>>
    /\ same_object

\* C23: is_likely_non_digit_issue returns true for a token exactly when the
\* Jira predicate or the Linear predicate is true for that token: true when
\* only Jira matches, when only Linear matches and when both match, false
\* when neither matches.
C23_LikelyIsJiraOrLinear ==
    Returned("is_likely_non_digit_issue") =>
        /\ (token \in jira /\ token \notin linear) => likely = TRUE
        /\ (token \notin jira /\ token \in linear) => likely = TRUE
        /\ (token \in jira /\ token \in linear) => likely = TRUE
        /\ (token \notin jira /\ token \notin linear) => likely = FALSE

C23_Witness ==
    /\ Returned("is_likely_non_digit_issue")
    /\ token = T_ABC123
    /\ token \notin jira /\ token \in linear
    /\ likely = TRUE

C23_WitnessJiraOnly ==
    /\ Returned("is_likely_non_digit_issue")
    /\ token = T_ABC123
    /\ token \in jira /\ token \notin linear
    /\ likely = TRUE

C23_WitnessBoth ==
    /\ Returned("is_likely_non_digit_issue")
    /\ token = T_ABC123
    /\ token \in jira /\ token \in linear
    /\ likely = TRUE

C23_WitnessNeither ==
    /\ Returned("is_likely_non_digit_issue")
    /\ token = T_ABC123
    /\ token \notin jira /\ token \notin linear
    /\ likely = FALSE

\* the git calls that change the repository or talk to the remote, failed
\* ones included, in program order
Mutations == SelectSeq(trace, IsMutation)
MutationOrder == <<"create_head", "checkout", "remote", "push">>

\* C24: at every point of every run the mutating git calls made so far,
\* failed ones included, are a prefix of (create branch, check out,
\* resolve origin, push): each happens at most once, a checkout only after
\* a create that succeeded, and the remote is resolved and the push made
\* only after a checkout that succeeded.
C24_MutationsInFixedOrder ==
    /\ Len(Mutations) <= Len(MutationOrder)
    /\ \A i \in 1..Len(Mutations) :
          /\ Mutations[i].op = MutationOrder[i]
          /\ i > 1 => Mutations[i - 1].res = "ok"

C24_Witness ==
    /\ Done
    /\ FailedIn({"checkout"})
    /\ Len(Mutations) = 2
    /\ Mutations[1].res = "ok"

C24_WitnessPushed ==
    /\ Done
    /\ FailedIn({"push"})
    /\ Len(Mutations) = 4

\* C25: a failure rolls nothing back.  When the checkout fails after the
\* branch was created, the run aborts with the new branch still among the
\* local branches; when the push fails after create and checkout, the run
\* aborts with the new branch still there and checked out.  No branch that
\* existed at the start is ever removed.
C25_NoRollback ==
    /\ heads0 \subseteq heads
    /\ (Done /\ FailedIn({"checkout"})) =>
          /\ outcome = "Abort"
          /\ branch_name \in heads
    /\ (Done /\ FailedIn({"push", "raise_if_error"})) =>
          /\ outcome = "Abort"
          /\ branch_name \in heads
          /\ active_branch = branch_name

C25_Witness ==
    /\ Done
    /\ FailedIn({"checkout"})
    /\ branch_name \notin heads0
    /\ branch_name \in heads
    /\ active_branch = active0

C25_WitnessPush ==
    /\ Done
    /\ FailedIn({"raise_if_error"})
    /\ branch_name \notin heads0
    /\ branch_name \in heads
    /\ active_branch = branch_name
    /\ active0 # branch_name

\* "create" is a registered command, or no tracker predicate matches it
CreateIsNoIssue ==
    T_create \in commands \/ (T_create \notin jira /\ T_create \notin linear)

Twice(method) == cpc = "done" /\ applied = <<method, method>>

\* C26: provided "create" is a registered command or is matched by neither
\* tracker predicate, handle_create_command is idempotent: applied to the
\* list a first application returned, it returns that list unchanged.
C26_CreateIdempotent ==
    [][(/\ Returned("handle_create_command")
        /\ Twice("handle_create_command")'
        /\ CreateIsNoIssue)
       => (returned' = returned /\ args' = args)]_vars

C26_Witness ==
    /\ Twice("handle_create_command")
    /\ CreateIsNoIssue
    /\ commands = {}
    /\ args0 = <<T_verbose, T_123, T_ABC123>>
    /\ returned = <<T_verbose, T_create, T_123, T_ABC123>>

\* without the proviso a second application inserts a second "create"
C26_SecondCreateInserted ==
    /\ Twice("handle_create_command")
    /\ ~CreateIsNoIssue
    /\ args0 = <<T_123>>
    /\ returned = <<T_create, T_create, T_123>>

\* C27: parse_args runs the alias pass and then the implicit-create pass
\* on the same list.  For a list that starts with "git": the normalised
\* list holds every token after the alias as often as the input did, plus
\* at most one "create"; when "create" was inserted every global flag
\* stands before it and the token right after it is the issue reference
\* (unregistered, all digits or matched by a tracker predicate); the
\* caller's list holds the normalised tokens.  In particular
\* ["git", N, "--verbose"] becomes ["--verbose", "create", N].
C27_AliasThenCreate ==
    (Returned("parse_args") /\ args0 # <<>> /\ args0[1] = T_git) =>
        /\ args = returned
        /\ \A t \in Tokens : Occurrences(returned, t) = Occurrences(Tail(args0), t)
        /\ Occurrences(returned, T_create) <= 1
        /\ \A k \in 1..Len(returned) :
              returned[k] = T_create =>
                /\ \A j \in 1..Len(returned) : returned[j] = T_verbose => j < k
                /\ k < Len(returned)
                /\ returned[k + 1] \notin commands
                /\ \/ AllDigits(returned[k + 1])
                   \/ returned[k + 1] \in jira
                   \/ returned[k + 1] \in linear
                /\ \A j \in 1..(k - 1) : IsLongFlag(returned[j])
        /\ \A n \in {T_123, T_ABC123} :
              (/\ args0 = <<T_git, n, T_verbose>>
               /\ n \notin commands
               /\ (AllDigits(n) \/ n \in jira \/ n \in linear))
              => returned = <<T_verbose, T_create, n>>

C27_Witness ==
    /\ Returned("parse_args")
    /\ args0 = <<T_git, T_123, T_verbose>>
    /\ T_123 \notin commands
    /\ returned = <<T_verbose, T_create, T_123>>
    /\ args = returned

C27_WitnessIssueKey ==
    /\ Returned("parse_args")
    /\ args0 = <<T_git, T_ABC123, T_json, T_verbose>>
    /\ returned = <<T_verbose, T_create, T_ABC123, T_json>>

====
